---- MODULE Spec2Model ----
(***************************************************************************)
(* A model of the uri_routes crate: the resource nodes of                  *)
(* src/src/resources/lib.rs (ApiResource: linking, as_path_component,      *)
(* compose) and the route builder of src/src/lib.rs (ApiRouteBuilder).     *)
(*                                                                         *)
(* A Rust String is a sequence of one-character strings, an Option<T> is   *)
(* the empty sequence (None) or a one-element sequence (Some), and an      *)
(* ApiResource is a record whose child and parent fields hold owned,       *)
(* nested copies, as Option<Box<Self>> does.                               *)
(***************************************************************************)
EXTENDS Integers, Sequences, FiniteSets, TLC

VARIABLES
    res,        \* linking: the caller's ApiResource bindings, one per handle
    lastOp,     \* linking: the calls made so far, each [op, self, other]
    linkRet,    \* linking: what the last with_child / with_parent returned
    links,      \* linking: with_child / with_parent / with_weight calls made so far
    comp,       \* single node: the ApiResource binding
    compRet,    \* single node: what the last call, if as_path_component, returned
    chain,      \* chain: the root of the chain built so far (Option)
    chainRet,   \* chain: what the last call, if compose, returned
    chainWeighed, \* chain: with_weight calls made so far
    sub_paths,  \* builder: ApiRouteBuilder.sub_paths
    parameters, \* builder: ApiRouteBuilder.parameters
    scheme,     \* builder: ApiRouteBuilder.scheme (Option)
    lastCall,   \* builder: the method called last, [op, path, weight]
    built       \* builder: what build handed to the URI constructor (Option)

linkVars == <<res, lastOp, linkRet, links>>
compVars == <<comp, compRet>>
chainVars == <<chain, chainRet, chainWeighed>>
routeVars == <<sub_paths, parameters, scheme, lastCall, built>>
vars == <<linkVars, compVars, chainVars, routeVars>>

----------------------------------------------------------------------------
(* Bounds *)

\* Number of ApiResource bindings the caller links together.
NumHandles == 3
\* Number of with_child / with_parent / with_weight calls the caller makes.
MaxLinks == 2
\* Number of with_weight calls the caller makes while building a chain.
MaxWeighed == 1
\* Longest list of validators on a node.
MaxValidators == 2
\* Longest chain composed.
MaxChain == 3
\* Number of with_path / with_path_weight calls on one builder.
MaxPaths == 3
\* Number of with_param calls on one builder.
MaxParams == 1

----------------------------------------------------------------------------
(* Strings *)

None == <<>>
Some(x) == <<x>>

Slash == <<"/">>

\* [String]::join(sep)
RECURSIVE Join(_, _)
Join(parts, sep) ==
    IF parts = <<>> THEN <<>>
    ELSE IF Len(parts) = 1 THEN parts[1]
    ELSE parts[1] \o sep \o Join(Tail(parts), sep)

\* str::replace("//", "/"): one left-to-right scan over non-overlapping matches.
RECURSIVE ReplaceDoubleSlash(_)
ReplaceDoubleSlash(s) ==
    IF Len(s) < 2 THEN s
    ELSE IF s[1] = "/" /\ s[2] = "/"
         THEN Slash \o ReplaceDoubleSlash(SubSeq(s, 3, Len(s)))
         ELSE <<s[1]>> \o ReplaceDoubleSlash(Tail(s))

DigitChar(d) ==
    CASE d = 0 -> "0" [] d = 1 -> "1" [] d = 2 -> "2" [] d = 3 -> "3"
      [] d = 4 -> "4" [] d = 5 -> "5" [] d = 6 -> "6" [] d = 7 -> "7"
      [] d = 8 -> "8" [] d = 9 -> "9"

\* Display for the argument type T (an unsigned integer): its decimal digits.
RECURSIVE to_string(_)
to_string(n) ==
    IF n < 10 THEN <<DigitChar(n)>>
    ELSE to_string(n \div 10) \o <<DigitChar(n % 10)>>

----------------------------------------------------------------------------
(* Resource nodes: src/src/resources/lib.rs *)

\* enum ArgRequiredBy
ArgRequiredBy == {"Child", "Me", "NoOne", "Parent"}

\* ArgError::Missing, ArgError::NotValid, ResourceError::AlreadySet
Missing(n) == [kind |-> "Missing", name |-> n, info |-> <<>>]
NotValid(n, reasons) == [kind |-> "NotValid", name |-> n, info |-> reasons]
AlreadySet(n, rel) == [kind |-> "AlreadySet", name |-> n, info |-> <<rel>>]
NoError == [kind |-> "", name |-> <<>>, info |-> <<>>]

\* Result<String>: Ok(s), Err(e), or the call unwinding with a panic.
Ok(s) == [tag |-> "Ok", str |-> s, err |-> NoError]
Err(e) == [tag |-> "Err", str |-> <<>>, err |-> e]
Panicked == [tag |-> "Panic", str |-> <<>>, err |-> NoError]
NoResult == [tag |-> "None", str |-> <<>>, err |-> NoError]

\* Result<Box<ApiResource>>
OkNode(n) == [tag |-> "Ok", node |-> Some(n), err |-> NoError]
ErrNode(e) == [tag |-> "Err", node |-> None, err |-> e]
NoNode == [tag |-> "None", node |-> None, err |-> NoError]

\* ApiResource::new
new(name) ==
    [name |-> name, arg |-> None, arg_required_by |-> "NoOne",
     arg_validators |-> <<>>, child |-> None, parent |-> None, weight |-> 0]

\* LinkedResource::is_child, is_root, is_tail
is_child(self) == self.parent # None
is_root(self) == self.parent = None
is_tail(self) == self.child = None

\* ArgedResource::with_arg, with_arg_required
with_arg(self, a) == [self EXCEPT !.arg = Some(a)]
with_arg_required(self, required) == [self EXCEPT !.arg_required_by = required]

\* WeightedResource::with_weight; WeightedResource::weight reads the field.
with_weight(self, w) == [self EXCEPT !.weight = w]

\* The caller's validators, fn(&T) -> Result<()>: None for Ok(()), Some(reason)
\* for Err(reason).
ValidatorSet == {"any", "even", "never"}
CallValidator(f, a) ==
    CASE f = "any" -> None
      [] f = "even" -> IF a % 2 = 0 THEN None ELSE Some("odd")
      [] f = "never" -> Some("rejected")

\* The reasons of the validators that reject a, in validator order.
RECURSIVE ValidatorErrors(_, _)
ValidatorErrors(fs, a) ==
    IF fs = <<>> THEN <<>>
    ELSE CallValidator(fs[1], a) \o ValidatorErrors(Tail(fs), a)

\* The closure compose_this of as_path_component. Each validator is called on
\* self.arg.as_ref().unwrap(), which panics when the argument is None.
compose_this(self) ==
    IF self.arg_validators # <<>> /\ self.arg = None THEN Panicked
    ELSE LET errors == IF self.arg_validators = <<>> THEN <<>>
                       ELSE ValidatorErrors(self.arg_validators, self.arg[1])
         IN IF errors # <<>> THEN Err(NotValid(self.name, errors))
            ELSE Ok(self.name \o Slash \o
                    (IF self.arg = None THEN <<>> ELSE to_string(self.arg[1])))

\* The closure to_argnotfound of as_path_component.
to_argnotfound(n) == Err(Missing(n.name))

\* as_path_component naming the node itself in every Missing error.
as_path_component_own_name(self) ==
    IF self.arg # None \/ self.arg_required_by = "NoOne" THEN compose_this(self)
    ELSE IF self.arg_required_by = "Parent" /\ self.parent # None
         THEN to_argnotfound(self)
    ELSE IF self.arg_required_by = "Child" /\ self.child # None
         THEN to_argnotfound(self)
    ELSE compose_this(self)

\* PathComponent::as_path_component
as_path_component(self) ==
    IF self.arg # None \/ self.arg_required_by = "NoOne" THEN compose_this(self)
    ELSE IF self.arg_required_by = "Parent" /\ self.parent # None
         THEN to_argnotfound(self.parent[1])
    ELSE IF self.arg_required_by = "Child" /\ self.child # None
         THEN to_argnotfound(self.child[1])
    ELSE compose_this(self)

\* The while loop of compose: curr is Option<&Self>, components the strings
\* pushed so far, calls the number of as_path_component calls made.
RECURSIVE compose_loop(_, _, _)
compose_loop(curr, components, calls) ==
    IF curr = None
    THEN [ret |-> Ok(ReplaceDoubleSlash(Join(components, Slash))), calls |-> calls]
    ELSE LET r == as_path_component(curr[1])
         IN IF r.tag = "Ok"
            THEN compose_loop(curr[1].child, Append(components, r.str), calls + 1)
            ELSE [ret |-> r, calls |-> calls + 1]

\* compose without the replace("//", "/") on the joined string.
RECURSIVE compose_loop_uncollapsed(_, _, _)
compose_loop_uncollapsed(curr, components, calls) ==
    IF curr = None
    THEN [ret |-> Ok(Join(components, Slash)), calls |-> calls]
    ELSE LET r == as_path_component(curr[1])
         IN IF r.tag = "Ok"
            THEN compose_loop_uncollapsed(curr[1].child, Append(components, r.str),
                                          calls + 1)
            ELSE [ret |-> r, calls |-> calls + 1]
compose_uncollapsed(self) == compose_loop_uncollapsed(Some(self), <<>>, 0)

\* compose walking on after a failure and returning the last error met.
RECURSIVE compose_loop_keep_going(_, _, _, _)
compose_loop_keep_going(curr, components, calls, failed) ==
    IF curr = None
    THEN [ret |-> IF failed = None
                  THEN Ok(ReplaceDoubleSlash(Join(components, Slash)))
                  ELSE failed[1],
          calls |-> calls]
    ELSE LET r == as_path_component(curr[1])
         IN IF r.tag = "Ok"
            THEN compose_loop_keep_going(curr[1].child, Append(components, r.str),
                                         calls + 1, failed)
            ELSE compose_loop_keep_going(curr[1].child, components, calls + 1,
                                         Some(r))
compose_keep_going(self) == compose_loop_keep_going(Some(self), <<>>, 0, None)

\* PathComponent::compose
compose(self) == compose_loop(Some(self), <<>>, 0)

\* with_parent without its AlreadySet check: an existing parent is replaced.
with_parent_replacing(self, parent) ==
    LET linked == [self EXCEPT !.parent = Some(parent)]
    IN [self |-> linked, ret |-> OkNode(linked)]

\* with_parent linking a clone and leaving self as it was.
with_parent_on_copy(self, parent) ==
    IF self.parent = None
    THEN [self |-> self, ret |-> OkNode([self EXCEPT !.parent = Some(parent)])]
    ELSE [self |-> self, ret |-> ErrNode(AlreadySet(self.name, "parent"))]

\* LinkedResource::with_parent: self is mutated in place; the result is a clone
\* of it.
with_parent(self, parent) ==
    IF self.parent = None
    THEN LET linked == [self EXCEPT !.parent = Some(parent)]
         IN [self |-> linked, ret |-> OkNode(linked)]
    ELSE [self |-> self, ret |-> ErrNode(AlreadySet(self.name, "parent"))]

\* with_child writing the child link into self instead of into a clone.
with_child_in_place(self, child) ==
    IF self.child = None
    THEN LET wp == with_parent(child, self)
         IN IF wp.ret.tag = "Ok"
            THEN LET linked == [self EXCEPT !.child = Some(wp.ret.node[1])]
                 IN [self |-> linked, child |-> wp.self, ret |-> OkNode(linked)]
            ELSE [self |-> self, child |-> wp.self, ret |-> wp.ret]
    ELSE [self |-> self, child |-> child,
          ret |-> ErrNode(AlreadySet(self.name, "child"))]

\* LinkedResource::with_child: child is mutated by with_parent; self is not.
with_child(self, child) ==
    IF self.child = None
    THEN LET fresh == self
             wp == with_parent(child, fresh)
         IN IF wp.ret.tag = "Ok"
            THEN [self |-> self, child |-> wp.self,
                  ret |-> OkNode([fresh EXCEPT !.child = Some(wp.ret.node[1])])]
            ELSE [self |-> self, child |-> wp.self, ret |-> wp.ret]
    ELSE [self |-> self, child |-> child,
          ret |-> ErrNode(AlreadySet(self.name, "child"))]

----------------------------------------------------------------------------
(* Linking: a caller holding NumHandles bindings and linking them *)

Handles == 1 .. NumHandles

\* The name each binding is created with.
Letters == <<"a", "b", "c", "d", "e", "f">>
NameOf(h) == <<Letters[h]>>

Call(op, h, o) == [op |-> op, self |-> h, other |-> o]

\* The call of with_child / with_parent, or the store of its result, made last.
LastOp == IF lastOp = <<>> THEN Call("new", 0, 0) ELSE lastOp[Len(lastOp)]
IsLinkCall(c) == c.op \in {"with_child", "with_parent"}

InitLink ==
    /\ res = [h \in Handles |-> new(NameOf(h))]
    /\ lastOp = <<>>
    /\ linkRet = NoNode
    /\ links = 0

\* res[h].with_child(&mut res[c]); the two borrows are of different bindings.
WithChild(h, c) ==
    /\ h # c
    /\ links < MaxLinks
    /\ links' = links + 1
    /\ LET r == with_child(res[h], res[c])
       IN /\ res' = [res EXCEPT ![h] = r.self, ![c] = r.child]
          /\ linkRet' = r.ret
    /\ lastOp' = Append(lastOp, Call("with_child", h, c))
    /\ UNCHANGED <<compVars, chainVars, routeVars>>

\* res[h].with_parent(&mut res[p])
WithParent(h, p) ==
    /\ h # p
    /\ links < MaxLinks
    /\ links' = links + 1
    /\ LET r == with_parent(res[h], res[p])
       IN /\ res' = [res EXCEPT ![h] = r.self]
          /\ linkRet' = r.ret
    /\ lastOp' = Append(lastOp, Call("with_parent", h, p))
    /\ UNCHANGED <<compVars, chainVars, routeVars>>

\* The weights passed to with_weight, in tenths (see F32_MAX below): 2.5.
ResourceWeights == {25}

\* res[h].with_weight(w)
WithWeight(h, w) ==
    /\ links < MaxLinks
    /\ links' = links + 1
    /\ res' = [res EXCEPT ![h] = with_weight(res[h], w)]
    /\ UNCHANGED <<lastOp, linkRet>>
    /\ UNCHANGED <<compVars, chainVars, routeVars>>

\* x = *x.with_child(&mut y).expect(..): the returned node replaces the binding
\* the call was made on.
Store ==
    /\ IsLinkCall(LastOp)
    /\ linkRet.tag = "Ok"
    /\ res' = [res EXCEPT ![LastOp.self] = linkRet.node[1]]
    /\ lastOp' = Append(lastOp, Call("store", LastOp.self, LastOp.other))
    /\ UNCHANGED <<linkRet, links>>
    /\ UNCHANGED <<compVars, chainVars, routeVars>>

----------------------------------------------------------------------------
(* Single node: a caller configuring one binding and asking for its path    *)
(* component                                                               *)

\* The arguments passed to with_arg.
ArgValues == {7, 42}

\* Appends a validator to arg_validators.
with_arg_validator(self, f) ==
    [self EXCEPT !.arg_validators = Append(self.arg_validators, f)]

InitComp ==
    /\ comp = new(<<"n">>)
    /\ compRet = NoResult

\* comp.with_arg(a)
CompWithArg(a) ==
    /\ comp' = with_arg(comp, a)
    /\ compRet' = NoResult
    /\ UNCHANGED <<linkVars, chainVars, routeVars>>

\* comp.with_arg_required(r)
CompWithArgRequired(r) ==
    /\ comp' = with_arg_required(comp, r)
    /\ compRet' = NoResult
    /\ UNCHANGED <<linkVars, chainVars, routeVars>>

\* comp.with_weight(w)
CompWithWeight(w) ==
    /\ comp' = with_weight(comp, w)
    /\ compRet' = NoResult
    /\ UNCHANGED <<linkVars, chainVars, routeVars>>

\* comp.with_parent(&mut ApiResource::new("p"))
CompWithParent ==
    /\ comp' = with_parent(comp, new(<<"p">>)).self
    /\ compRet' = NoResult
    /\ UNCHANGED <<linkVars, chainVars, routeVars>>

\* comp = *comp.with_child(&mut ApiResource::new("c")).expect(..)
CompWithChild ==
    /\ LET r == with_child(comp, new(<<"c">>))
       IN /\ r.ret.tag = "Ok"
          /\ comp' = r.ret.node[1]
    /\ compRet' = NoResult
    /\ UNCHANGED <<linkVars, chainVars, routeVars>>

\* comp.as_path_component()
CompAsPathComponent ==
    /\ compRet' = as_path_component(comp)
    /\ UNCHANGED comp
    /\ UNCHANGED <<linkVars, chainVars, routeVars>>

\* A validator is added to comp.
CompWithArgValidator(f) ==
    /\ Len(comp.arg_validators) < MaxValidators
    /\ comp' = with_arg_validator(comp, f)
    /\ compRet' = NoResult
    /\ UNCHANGED <<linkVars, chainVars, routeVars>>

----------------------------------------------------------------------------
(* Chain: a caller building a chain tail first, as the doctests of compose  *)
(* do, and composing it                                                    *)

\* The nodes reached from node by following child links, node first.
RECURSIVE ChainOf(_)
ChainOf(node) ==
    IF node.child = None THEN <<node>> ELSE <<node>> \o ChainOf(node.child[1])

ChainLen == IF chain = None THEN 0 ELSE Len(ChainOf(chain[1]))

\* The names given to new nodes: a letter by position, or the empty name.
ChainNames == {NameOf(ChainLen + 1), <<>>}

\* The arguments passed to with_arg on a node of the chain.
ChainArgValues == {42}

NoCompose == [ret |-> NoResult, calls |-> 0, on |-> None]

InitChain ==
    /\ chain = None
    /\ chainRet = NoCompose
    /\ chainWeighed = 0

\* let mut chain = ApiResource::new(n)
NewTail(n) ==
    /\ chain = None
    /\ chain' = Some(new(n))
    /\ chainRet' = NoCompose
    /\ UNCHANGED chainWeighed
    /\ UNCHANGED <<linkVars, compVars, routeVars>>

\* chain = *ApiResource::new(n).with_child(&mut chain).expect(..)
Prepend(n) ==
    /\ chain # None
    /\ ChainLen < MaxChain
    /\ LET r == with_child(new(n), chain[1])
       IN /\ r.ret.tag = "Ok"
          /\ chain' = r.ret.node
    /\ chainRet' = NoCompose
    /\ UNCHANGED chainWeighed
    /\ UNCHANGED <<linkVars, compVars, routeVars>>

\* chain.with_arg(a)
ChainWithArg(a) ==
    /\ chain # None
    /\ chain' = Some(with_arg(chain[1], a))
    /\ chainRet' = NoCompose
    /\ UNCHANGED chainWeighed
    /\ UNCHANGED <<linkVars, compVars, routeVars>>

\* chain.with_arg_required(r)
ChainWithArgRequired(r) ==
    /\ chain # None
    /\ chain' = Some(with_arg_required(chain[1], r))
    /\ chainRet' = NoCompose
    /\ UNCHANGED chainWeighed
    /\ UNCHANGED <<linkVars, compVars, routeVars>>

\* chain.with_weight(w)
ChainWithWeight(w) ==
    /\ chain # None
    /\ chainWeighed < MaxWeighed
    /\ chainWeighed' = chainWeighed + 1
    /\ chain' = Some(with_weight(chain[1], w))
    /\ chainRet' = NoCompose
    /\ UNCHANGED <<linkVars, compVars, routeVars>>

\* chain.compose()
Compose ==
    /\ chain # None
    /\ chainRet' = [ret |-> compose(chain[1]).ret,
                    calls |-> compose(chain[1]).calls, on |-> chain]
    /\ UNCHANGED chain
    /\ UNCHANGED chainWeighed
    /\ UNCHANGED <<linkVars, compVars, routeVars>>

\* chain.child().unwrap().compose()
ComposeChild ==
    /\ chain # None
    /\ chain[1].child # None
    /\ LET c == chain[1].child[1]
       IN chainRet' = [ret |-> compose(c).ret, calls |-> compose(c).calls,
                       on |-> Some(c)]
    /\ UNCHANGED chain
    /\ UNCHANGED chainWeighed
    /\ UNCHANGED <<linkVars, compVars, routeVars>>

----------------------------------------------------------------------------
(* Route builder: src/src/lib.rs *)

\* An f32 weight is an integer counting tenths; F32_MAX stands for f32::MAX,
\* and the two values above it for +infinity and NaN.
F32_MAX == 1000
Infinity == F32_MAX + 1
NaN == F32_MAX + 2
\* The lower clamp limit 0.1 and the root entry's weight 0.0, in tenths.
MinWeight == 1
RootWeight == 0

\* f32 comparison: false whenever an operand is NaN.
FloatLt(a, b) == a # NaN /\ b # NaN /\ a < b

\* f32::clamp
clamp(w, lo, hi) ==
    LET low == IF FloatLt(w, lo) THEN lo ELSE w
    IN IF FloatLt(hi, low) THEN hi ELSE low

\* Ord for OrderedFloat<f32>: NaN is equal to itself and above every number.
OrderedFloatCmp(a, b) ==
    IF a = b THEN "Equal"
    ELSE IF a = NaN THEN "Greater"
    ELSE IF b = NaN THEN "Less"
    ELSE IF a < b THEN "Less" ELSE "Greater"

\* ApiRoutePath::new
ApiRoutePath(path, weight) == [path |-> path, weight |-> weight]

\* PartialOrd for ApiRoutePath compares the weights alone.
partial_cmp(a, b) == OrderedFloatCmp(a.weight, b.weight)

\* PartialOrd::lt, the comparison slice::sort uses.
lt(a, b) == partial_cmp(a, b) = "Less"

\* slice::sort is a stable sort: x goes behind every element it is not less than.
RECURSIVE SortedInsert(_, _)
SortedInsert(sorted, x) ==
    IF sorted = <<>> THEN <<x>>
    ELSE IF lt(x, sorted[1]) THEN <<x>> \o sorted
    ELSE <<sorted[1]>> \o SortedInsert(Tail(sorted), x)

RECURSIVE sort(_)
sort(paths) ==
    IF paths = <<>> THEN <<>>
    ELSE SortedInsert(sort(SubSeq(paths, 1, Len(paths) - 1)), paths[Len(paths)])

\* insert_path without the sort after the push.
insert_path_unsorted(paths, path, weight) ==
    LET w == clamp(IF weight = None THEN F32_MAX ELSE weight[1], MinWeight, F32_MAX)
    IN Append(paths, ApiRoutePath(path, w))

\* insert_path without the clamp of the weight.
insert_path_unclamped(paths, path, weight) ==
    LET w == IF weight = None THEN F32_MAX ELSE weight[1]
    IN sort(Append(paths, ApiRoutePath(path, w)))

\* ApiRouteBuilder::insert_path
insert_path(paths, path, weight) ==
    LET w == clamp(IF weight = None THEN F32_MAX ELSE weight[1], MinWeight, F32_MAX)
    IN sort(Append(paths, ApiRoutePath(path, w)))

\* ApiRouteBuilder::insert_param, for an integer value
insert_param(params, name, value) ==
    Append(params, name \o <<"=">> \o to_string(value))

\* ApiRouteBuilder::parse_params
parse_params(params) == Join(params, <<"&">>)

\* ApiRouteBuilder::parse_path
NonEmptyPath(p) == p.path # <<>>
parse_path(paths) ==
    LET kept == SelectSeq(paths, NonEmptyPath)
    IN ReplaceDoubleSlash(Join([i \in 1 .. Len(kept) |-> kept[i].path], Slash))

\* ApiRouteBuilder::parse_scheme
parse_scheme(sch) == IF sch = None THEN <<"h", "t", "t", "p", "s">> ELSE sch[1]

\* What build passes to uri::Builder: scheme, authority, path_and_query.
build(host, sch, paths, params) ==
    [scheme |-> parse_scheme(sch), authority |-> host,
     path_and_query |-> parse_path(paths) \o <<"?">> \o parse_params(params)]

----------------------------------------------------------------------------
(* Builder: a caller chaining the builder's methods and building once *)

HostName == <<"h">>
PathInputs == {<<"a">>, <<"b">>, <<>>}
WeightInputs == {0 - 10, 0, 5, 10, 20, Infinity, NaN}
ParamNames == {<<"p">>}
ParamValues == {1}
SchemeInputs == {<<"f">>}

Called(op, path, weight) == [op |-> op, path |-> path, weight |-> weight]

\* ApiRouteBuilder::new(HostName)
InitRoute ==
    /\ sub_paths = <<ApiRoutePath(Slash, RootWeight)>>
    /\ parameters = <<>>
    /\ scheme = None
    /\ lastCall = Called("new", <<>>, None)
    /\ built = None

\* .with_path(p)
WithPath(p) ==
    /\ built = None
    /\ Len(sub_paths) <= MaxPaths
    /\ sub_paths' = insert_path(sub_paths, p, None)
    /\ lastCall' = Called("with_path", p, None)
    /\ UNCHANGED <<parameters, scheme, built>>
    /\ UNCHANGED <<linkVars, compVars, chainVars>>

\* .with_path_weight(p, w)
WithPathWeight(p, w) ==
    /\ built = None
    /\ Len(sub_paths) <= MaxPaths
    /\ sub_paths' = insert_path(sub_paths, p, Some(w))
    /\ lastCall' = Called("with_path_weight", p, Some(w))
    /\ UNCHANGED <<parameters, scheme, built>>
    /\ UNCHANGED <<linkVars, compVars, chainVars>>

\* .with_param(n, v)
WithParam(n, v) ==
    /\ built = None
    /\ Len(parameters) < MaxParams
    /\ parameters' = insert_param(parameters, n, v)
    /\ lastCall' = Called("with_param", <<>>, None)
    /\ UNCHANGED <<sub_paths, scheme, built>>
    /\ UNCHANGED <<linkVars, compVars, chainVars>>

\* .with_scheme(sch)
WithScheme(sch) ==
    /\ built = None
    /\ scheme' = Some(sch)
    /\ lastCall' = Called("with_scheme", <<>>, None)
    /\ UNCHANGED <<sub_paths, parameters, built>>
    /\ UNCHANGED <<linkVars, compVars, chainVars>>

\* .build(): the builder is consumed.
Build ==
    /\ built = None
    /\ built' = Some(build(HostName, scheme, sub_paths, parameters))
    /\ lastCall' = Called("build", <<>>, None)
    /\ UNCHANGED <<sub_paths, parameters, scheme>>
    /\ UNCHANGED <<linkVars, compVars, chainVars>>

----------------------------------------------------------------------------
(* Specifications *)

Init == InitLink /\ InitComp /\ InitChain /\ InitRoute

\* The linking caller.
Next ==
    \/ \E h \in Handles, c \in Handles : WithChild(h, c)
    \/ \E h \in Handles, p \in Handles : WithParent(h, p)
    \/ \E h \in Handles, w \in ResourceWeights : WithWeight(h, w)
    \/ Store
Spec == Init /\ [][Next]_vars

\* The single-node caller.
NextComponent ==
    \/ \E a \in ArgValues : CompWithArg(a)
    \/ \E r \in ArgRequiredBy : CompWithArgRequired(r)
    \/ \E w \in ResourceWeights : CompWithWeight(w)
    \/ CompWithParent
    \/ CompWithChild
    \/ CompAsPathComponent
SpecComponent == Init /\ [][NextComponent]_vars

\* The single-node caller, with validators.
NextValidated ==
    \/ NextComponent
    \/ \E f \in ValidatorSet : CompWithArgValidator(f)
SpecValidated == Init /\ [][NextValidated]_vars

\* The chain caller.
NextCompose ==
    \/ \E n \in ChainNames : NewTail(n)
    \/ \E n \in ChainNames : Prepend(n)
    \/ \E a \in ChainArgValues : ChainWithArg(a)
    \/ \E r \in ArgRequiredBy : ChainWithArgRequired(r)
    \/ \E w \in ResourceWeights : ChainWithWeight(w)
    \/ Compose
    \/ ComposeChild
SpecCompose == Init /\ [][NextCompose]_vars

\* The builder's caller.
NextRoute ==
    \/ \E p \in PathInputs : WithPath(p)
    \/ \E p \in PathInputs, w \in WeightInputs : WithPathWeight(p, w)
    \/ \E n \in ParamNames, v \in ParamValues : WithParam(n, v)
    \/ \E sch \in SchemeInputs : WithScheme(sch)
    \/ Build
SpecRoute == Init /\ [][NextRoute]_vars

----------------------------------------------------------------------------
(* Claims about linking, checked under Spec *)

\* The step just taken is a call of with_child / with_parent.
LinkStep == lastOp' # lastOp /\ IsLinkCall(lastOp'[Len(lastOp')])

\* C2: an attach never replaces an existing link. with_child on a node whose
\* child is set fails with AlreadySet(name, "child"); otherwise, with_child(B)
\* where B has a parent fails with AlreadySet(B.name, "parent"); with_parent on
\* a node whose parent is set fails with AlreadySet(name, "parent"). A failing
\* call changes no binding, and no call changes a link that was set.
C2_AttachNeverReplaces ==
    [][LinkStep =>
        LET op == lastOp'[Len(lastOp')]
            h == op.self
            o == op.other
        IN /\ (op.op = "with_child" /\ res[h].child # None) =>
                  linkRet' = ErrNode(AlreadySet(res[h].name, "child"))
           /\ (op.op = "with_child" /\ res[h].child = None /\ res[o].parent # None) =>
                  linkRet' = ErrNode(AlreadySet(res[o].name, "parent"))
           /\ (op.op = "with_parent" /\ res[h].parent # None) =>
                  linkRet' = ErrNode(AlreadySet(res[h].name, "parent"))
           /\ linkRet'.tag = "Err" => res' = res
           /\ \A k \in Handles :
                  /\ res[k].child # None => res'[k].child = res[k].child
                  /\ res[k].parent # None => res'[k].parent = res[k].parent
    ]_vars

\* C2 witness: with_child(B) was refused because B already had a parent.
C2_Witness ==
    /\ LastOp.op = "with_child"
    /\ linkRet = ErrNode(AlreadySet(res[LastOp.other].name, "parent"))
    /\ res[LastOp.self].child = None

\* C3 as claimed: after a successful A.with_child(B), handle A is still a tail
\* and handle B is still a root.
C3_NeitherHandleMutated ==
    (LastOp.op = "with_child" /\ linkRet.tag = "Ok") =>
        /\ is_tail(res[LastOp.self])
        /\ is_root(res[LastOp.other])

\* C3 amended: a successful A.with_child(B) leaves handle A (and every other
\* binding but B) as it was, so A still reports is_tail; it sets B's parent
\* link, in place, to a copy of A, so B no longer reports is_root; and it
\* returns A's copy with its child link set to a copy of the linked B.
C3_CopyOnLinkMutatesChild ==
    [][(LinkStep /\ lastOp'[Len(lastOp')].op = "with_child" /\ linkRet'.tag = "Ok") =>
        LET h == lastOp'[Len(lastOp')].self
            o == lastOp'[Len(lastOp')].other
        IN /\ \A k \in Handles \ {o} : res'[k] = res[k]
           /\ is_tail(res'[h])
           /\ res'[o] = [res[o] EXCEPT !.parent = Some(res[h])]
           /\ ~is_root(res'[o])
           /\ linkRet'.node[1] = [res[h] EXCEPT !.child = Some(res'[o])]
           /\ ~is_tail(linkRet'.node[1])
           /\ is_child(linkRet'.node[1].child[1])
    ]_vars

\* C3 witness: a with_child call has just succeeded.
C3_Witness ==
    /\ LastOp.op = "with_child"
    /\ linkRet.tag = "Ok"
    /\ is_tail(res[LastOp.self])
    /\ ~is_root(res[LastOp.other])

\* The calls of the doctests of is_tail: child0 = child0.with_child(child1),
\* then parent.with_child(child0).
TailFirst(p, m, t) ==
    <<Call("with_child", m, t), Call("store", m, t), Call("with_child", p, m)>>

\* C4: after parent.with_child(&mut child) succeeds, the handle child is a
\* child and not a root, and the returned node is not a tail; after the calls
\* TailFirst(p, m, t) on new nodes the returned root is not a tail, handle m is
\* a child and not a tail, and handle t is a child and a tail.
C4_HandleIsLinked ==
    /\ (LastOp.op = "with_child" /\ linkRet.tag = "Ok") =>
           /\ is_child(res[LastOp.other])
           /\ ~is_root(res[LastOp.other])
           /\ ~is_tail(linkRet.node[1])
    /\ \A p, m, t \in Handles :
           (p # m /\ m # t /\ p # t /\ lastOp = TailFirst(p, m, t)) =>
               /\ linkRet.tag = "Ok"
               /\ ~is_tail(linkRet.node[1])
               /\ is_child(res[m]) /\ ~is_tail(res[m])
               /\ is_child(res[t]) /\ is_tail(res[t])

\* C4 witness: the three calls of the doctest have been made.
C4_Witness ==
    \E p, m, t \in Handles :
        /\ p # m /\ m # t /\ p # t
        /\ lastOp = TailFirst(p, m, t)
        /\ linkRet.tag = "Ok"

----------------------------------------------------------------------------
(* Claims about one node's path component *)

\* as_path_component has just been called on comp.
Evaluated == compRet.tag # "None"

\* "{name}/{argument-or-empty}" for a node.
Formatted(n) ==
    n.name \o Slash \o (IF n.arg = None THEN <<>> ELSE to_string(n.arg[1]))

\* C5 as claimed: as_path_component on a node whose requirement is Me fails with
\* Missing(name) when the argument is absent, whatever its links, and returns
\* "{name}/{argument}" when it is present.
C5_RequiredByMe ==
    (Evaluated /\ comp.arg_required_by = "Me") =>
        IF comp.arg = None THEN compRet = Err(Missing(comp.name))
        ELSE compRet = Ok(Formatted(comp))

\* C6: on a node without argument, as_path_component fails with
\* Missing(parent.name) when the requirement is Parent and a parent is linked,
\* and with Missing(child.name) when it is Child and a child is linked, never
\* with the node's own name; when that relative is not linked it returns
\* "{name}/".
C6_RequiredByRelative ==
    (Evaluated /\ comp.arg = None) =>
        /\ (comp.arg_required_by = "Parent" /\ comp.parent # None) =>
               /\ compRet = Err(Missing(comp.parent[1].name))
               /\ compRet.err.name # comp.name
        /\ (comp.arg_required_by = "Child" /\ comp.child # None) =>
               /\ compRet = Err(Missing(comp.child[1].name))
               /\ compRet.err.name # comp.name
        /\ (comp.arg_required_by = "Parent" /\ comp.parent = None) =>
               compRet = Ok(comp.name \o Slash)
        /\ (comp.arg_required_by = "Child" /\ comp.child = None) =>
               compRet = Ok(comp.name \o Slash)

\* C6 witness: the node has both links, requires its argument by its parent, and
\* the call named the parent.
C6_Witness ==
    /\ Evaluated
    /\ comp.arg = None
    /\ comp.arg_required_by = "Parent"
    /\ comp.parent # None /\ comp.child # None
    /\ compRet = Err(Missing(<<"p">>))

\* as_path_component on comp reaches compose_this without an argument.
ReachesComposition ==
    /\ comp.arg = None
    /\ \/ comp.arg_required_by \in {"NoOne", "Me"}
       \/ comp.arg_required_by = "Parent" /\ comp.parent = None
       \/ comp.arg_required_by = "Child" /\ comp.child = None

\* C10 as claimed: on a node without argument that reaches composition,
\* as_path_component returns Ok("{name}/") whatever the validator list is.
C10_NoValidatorWithoutArgument ==
    (Evaluated /\ ReachesComposition) => compRet = Ok(comp.name \o Slash)

----------------------------------------------------------------------------
(* Claims about compose, checked under SpecCompose *)

\* The nodes compose was called on and walks, and each one's own result.
Walked == ChainOf(chainRet.on[1])
ResultAt(i) == as_path_component(Walked[i])
Failing == {i \in 1 .. Len(Walked) : ResultAt(i).tag # "Ok"}

SlashFree(name) == \A i \in 1 .. Len(name) : name[i] # "/"

\* C1: when every node of the chain succeeds, compose returns the strings
\* "{name}/{argument-or-empty}" of the node it was called on and of the nodes
\* below it, in that order, joined with "/" and with "//" replaced by "/" in
\* one pass; for nodes without argument, with requirement NoOne and non-empty
\* slash-free names n1..nk that is "n1/n2/../nk/".
C1_ComposeJoinsChain ==
    (chainRet.on # None /\ Failing = {}) =>
        /\ chainRet.ret =
               Ok(ReplaceDoubleSlash(
                      Join([i \in 1 .. Len(Walked) |-> Formatted(Walked[i])], Slash)))
        /\ chainRet.calls = Len(Walked)
        /\ (\A i \in 1 .. Len(Walked) :
                /\ Walked[i].arg = None
                /\ Walked[i].arg_required_by = "NoOne"
                /\ Walked[i].name # <<>>
                /\ SlashFree(Walked[i].name)) =>
               chainRet.ret.str =
                   Join([i \in 1 .. Len(Walked) |-> Walked[i].name \o Slash], <<>>)

\* C1 witness: a chain of three plain nodes composed to "c/b/a/".
C1_Witness ==
    /\ chainRet.on # None
    /\ Len(Walked) = 3
    /\ \A i \in 1 .. 3 : Walked[i].arg = None /\ Walked[i].arg_required_by = "NoOne"
    /\ chainRet.ret = Ok(<<"c", "/", "b", "/", "a", "/">>)

\* C7: when a node of the chain fails, compose returns the error of the first
\* such node in chain order and no string, having called as_path_component on
\* no node behind it.
C7_FirstFailureWins ==
    (chainRet.on # None /\ Failing # {}) =>
        LET first == CHOOSE i \in Failing : \A j \in Failing : i <= j
        IN /\ chainRet.ret = ResultAt(first)
           /\ chainRet.ret.tag = "Err"
           /\ chainRet.ret.str = <<>>
           /\ chainRet.calls = first

\* C7 witness: the second and the third node of a chain both fail, with
\* different errors, and compose returned the second node's.
C7_Witness ==
    /\ chainRet.on # None
    /\ Failing = {2, 3}
    /\ ResultAt(2) # ResultAt(3)
    /\ chainRet.ret = ResultAt(2)

----------------------------------------------------------------------------
(* Claims about the route builder, checked under SpecRoute *)

\* The path build composes: the non-empty entries in their order.
RECURSIVE EmittedPaths(_)
EmittedPaths(paths) ==
    IF paths = <<>> THEN <<>>
    ELSE (IF paths[1].path = <<>> THEN <<>> ELSE <<paths[1].path>>)
         \o EmittedPaths(Tail(paths))

\* C8: the path entries are in non-decreasing order of their stored weight;
\* build emits the non-empty ones in that order; the entry a call of
\* with_path_weight stores carries the weight passed, clamped, and the entry
\* with_path stores carries f32::MAX; and the entries "b" at 2.0 and "a" at 1.0
\* give the path "/a/b".
C8_SortedByWeight ==
    /\ \A i \in 1 .. Len(sub_paths) - 1 :
           OrderedFloatCmp(sub_paths[i].weight, sub_paths[i + 1].weight) # "Greater"
    /\ built # None =>
           built[1].path_and_query =
               ReplaceDoubleSlash(Join(EmittedPaths(sub_paths), Slash))
                   \o <<"?">> \o parse_params(parameters)
    /\ lastCall.op = "with_path" =>
           \E i \in 1 .. Len(sub_paths) :
               sub_paths[i] = ApiRoutePath(lastCall.path, F32_MAX)
    /\ lastCall.op = "with_path_weight" =>
           \E i \in 1 .. Len(sub_paths) :
               sub_paths[i] = ApiRoutePath(lastCall.path,
                                           clamp(lastCall.weight[1], MinWeight, F32_MAX))
    /\ (/\ Len(sub_paths) = 3
        /\ \E i \in 1 .. 3 : sub_paths[i] = ApiRoutePath(<<"b">>, 20)
        /\ \E i \in 1 .. 3 : sub_paths[i] = ApiRoutePath(<<"a">>, 10)) =>
           /\ sub_paths = <<ApiRoutePath(Slash, RootWeight),
                            ApiRoutePath(<<"a">>, 10), ApiRoutePath(<<"b">>, 20)>>
           /\ parse_path(sub_paths) = <<"/", "a", "/", "b">>

\* C8 witness: with_path_weight("b", 2.0), then with_path_weight("a", 1.0), then
\* build, which composed "/a/b".
C8_Witness ==
    /\ built # None
    /\ Len(sub_paths) = 3
    /\ sub_paths[2] = ApiRoutePath(<<"a">>, 10)
    /\ sub_paths[3] = ApiRoutePath(<<"b">>, 20)
    /\ built[1].path_and_query = <<"/", "a", "/", "b", "?">>

\* C9 as claimed: right after with_path(p) the entry it inserted is the last
\* path entry.
C9_WithPathIsLast ==
    lastCall.op = "with_path" =>
        sub_paths[Len(sub_paths)] = ApiRoutePath(lastCall.path, F32_MAX)

\* C11: the root entry "/" with weight 0.0 stays the first path entry after
\* any calls of with_path / with_path_weight, whatever weights are passed:
\* every other entry's stored weight is, in the order the sort uses, at least
\* the lower clamp limit 0.1; and the path parse_path composes, and the one
\* build hands on, begin with "/".
C11_RootStaysFirst ==
    /\ sub_paths[1] = ApiRoutePath(Slash, RootWeight)
    /\ \A i \in 2 .. Len(sub_paths) :
           OrderedFloatCmp(sub_paths[i].weight, MinWeight) # "Less"
    /\ Head(parse_path(sub_paths)) = "/"
    /\ built # None => Head(built[1].path_and_query) = "/"

\* C11 witness: with_path_weight("a", -1.0) was the last call on a builder that
\* already held another entry; "a" was stored at 0.1, right behind the root.
C11_Witness ==
    /\ lastCall = Called("with_path_weight", <<"a">>, Some(0 - 10))
    /\ Len(sub_paths) >= 3
    /\ sub_paths[1] = ApiRoutePath(Slash, RootWeight)
    /\ sub_paths[2].weight = MinWeight
    /\ \E i \in 2 .. Len(sub_paths) : sub_paths[i] = ApiRoutePath(<<"a">>, MinWeight)
    /\ Head(parse_path(sub_paths)) = "/"

====
